---- MODULE Spec2Model ----
(***************************************************************************)
(* Instagram username checker (api/check-ig-username): the request handler  *)
(* with its validator, the three upstream probes (primary endpoint with one *)
(* retry, alternate endpoint, public profile page) and the JSON replies.    *)
(*                                                                         *)
(* Strings that the code inspects character by character (the username)    *)
(* are sequences of one-character strings.  JavaScript true / false / null  *)
(* in a reply body are the strings "true" / "false" / "null"; a field the   *)
(* reply does not carry is not in the record's DOMAIN.                      *)
(***************************************************************************)
EXTENDS Integers, Sequences, FiniteSets, TLC

(***************************************************************************)
(* Bounds of the model.                                                     *)
(***************************************************************************)
\* longest raw ?username= value enumerated character by character
MaxLen ==
    2

\* largest follower / following count an upstream profile reports
MaxCount ==
    1

\* longest raw ?username= value of a request served by all three handlers
MaxCmpLen ==
    1

\* largest follower / following count of the profiles the signals are
\* computed from, besides the counts 10 and 100
MaxSignalCount ==
    5

(***************************************************************************)
(* Program constants.                                                       *)
(***************************************************************************)
\* isValidUsername: u.length > 30
MaxUsernameLen ==
    30

\* setJSON(res, status = 200, cacheEdgeSeconds = 60)
DefaultEdgeSeconds ==
    60

\* setTimeout(r, 250) before the retry of the primary endpoint
RetryDelayMs ==
    250

\* provenance labels returned by the three fetch helpers
S1 ==
    "i.instagram.com web_profile_info"

S2 ==
    "www.instagram.com web_profile_info"

S3 ==
    "public profile page"

(***************************************************************************)
(* Inputs: request methods, raw query values, upstream responses.           *)
(***************************************************************************)
Methods ==
    {"GET", "POST", "OPTIONS"}

\* a sample of the classes the validator tells apart: a lower-case and an
\* upper-case letter, underscore, period, white space and a character outside
\* the allowed class
Alphabet ==
    {"a", "Z", "_", ".", " ", "!"}

RECURSIVE Repeat(_, _)
Repeat(c, n) ==
    IF n = 0 THEN <<>> ELSE <<c>> \o Repeat(c, n - 1)

SeqsUpTo(S, n) ==
    UNION {[1..k -> S] : k \in 0..n}

\* names around the length limit, bare and padded with white space
LongNames ==
    {Repeat("a", n) : n \in (MaxUsernameLen - 1)..(MaxUsernameLen + 1)}
        \cup {<<" ">> \o Repeat("a", MaxUsernameLen) \o <<" ">>,
              Repeat("a", MaxUsernameLen - 1) \o <<".">>}

RawNames ==
    SeqsUpTo(Alphabet, MaxLen) \cup LongNames

\* req: the method and the query; query is {} when ?username= is missing
Requests ==
    [method : Methods, query : {{}} \cup {{s} : s \in RawNames}]

Statuses ==
    {200, 400, 403, 404, 429, 500}

Counts ==
    0..MaxCount

\* data.user of a web_profile_info document
Users ==
    [id : {"42"}, full_name : {"Ann"}, is_private : {FALSE}, is_verified : {FALSE},
     followers : Counts, following : Counts,
     profile_pic_url_hd : BOOLEAN, profile_pic_url : BOOLEAN]

\* response bodies: not JSON at all; JSON without data.user; JSON with
\* data.user = null; JSON with a data.user object
Bodies ==
    {[kind |-> "not_json"], [kind |-> "no_user_key"], [kind |-> "user_null"]}
        \cup {[kind |-> "user", user |-> u] : u \in Users}

\* what `await fetch(...)` yields: a Response, or a rejection (network error)
FetchOutcomes ==
    {[threw |-> FALSE, status |-> s, body |-> b] :
        s \in Statuses \ {200}, b \in {[kind |-> "not_json"]}}
        \cup {[threw |-> FALSE, status |-> 200, body |-> b] : b \in Bodies}
        \cup {[threw |-> TRUE, message |-> "fetch failed"]}

(***************************************************************************)
(* Pure helpers of the source.                                              *)
(***************************************************************************)
IsSpace(c) ==
    c = " "

\* String.prototype.trim: drops leading and trailing white space
RECURSIVE trimStart(_)
trimStart(s) ==
    IF s # <<>> /\ IsSpace(Head(s)) THEN trimStart(Tail(s)) ELSE s

RECURSIVE trimEnd(_)
trimEnd(s) ==
    IF s # <<>> /\ IsSpace(s[Len(s)]) THEN trimEnd(SubSeq(s, 1, Len(s) - 1)) ELSE s

trim(s) ==
    trimEnd(trimStart(s))

LowerCase ==
    {"a", "b", "c", "d", "e", "f", "g", "h", "i", "j", "k", "l", "m",
     "n", "o", "p", "q", "r", "s", "t", "u", "v", "w", "x", "y", "z"}

UpperCase ==
    {"A", "B", "C", "D", "E", "F", "G", "H", "I", "J", "K", "L", "M",
     "N", "O", "P", "Q", "R", "S", "T", "U", "V", "W", "X", "Y", "Z"}

Digits ==
    {"0", "1", "2", "3", "4", "5", "6", "7", "8", "9"}

\* the character class [a-z0-9._]; the i flag adds the upper-case letters
InClass(c) ==
    c \in LowerCase \cup UpperCase \cup Digits \cup {".", "_"}

\* /^[a-z0-9._]+$/i.test(u)
MatchesPattern(u) ==
    Len(u) >= 1 /\ \A i \in 1..Len(u) : InClass(u[i])

endsWith(u, c) ==
    u # <<>> /\ u[Len(u)] = c

\* u.includes("..")
includesDotDot(u) ==
    \E i \in 1..(Len(u) - 1) : u[i] = "." /\ u[i + 1] = "."

\* isValidUsername without the u.endsWith(".") check
isValidUsername_NoTrailingDotCheck(u) ==
    IF u = <<>> THEN FALSE
    ELSE IF Len(u) < 1 \/ Len(u) > MaxUsernameLen THEN FALSE
    ELSE IF ~MatchesPattern(u) THEN FALSE
    ELSE IF includesDotDot(u) THEN FALSE
    ELSE TRUE

isValidUsername(u) ==
    IF u = <<>> THEN FALSE
    ELSE IF Len(u) < 1 \/ Len(u) > MaxUsernameLen THEN FALSE
    ELSE IF ~MatchesPattern(u) THEN FALSE
    ELSE IF endsWith(u, ".") THEN FALSE
    ELSE IF includesDotDot(u) THEN FALSE
    ELSE TRUE

\* (req.query.username || "").toString().trim()
queryUsername(req) ==
    IF req.query = {} THEN <<>> ELSE trim(CHOOSE s \in req.query : TRUE)

\* Response.ok: status in the range 200..299
ok(r) ==
    r.status >= 200 /\ r.status <= 299

\* res after setCORS and setJSON(status, cacheEdgeSeconds) and res.json(body)
setJSON(status, cacheEdgeSeconds, body) ==
    [cors |-> TRUE, status |-> status, json |-> TRUE,
     sMaxAge |-> cacheEdgeSeconds, body |-> body]

\* res.status(204).end(): no content type, no cache header, no body
endEmpty(status) ==
    [cors |-> TRUE, status |-> status, json |-> FALSE]

\* buildSignalsFromUser flagging ratio >= 3 instead of ratio > 3
buildSignalsFromUser_RatioAtLeast3(user) ==
    LET followers == user.followers
        following == user.following
        ratio == IF followers > 0 THEN <<following, followers>> ELSE <<>>
    IN  [followers |-> followers,
         following |-> following,
         ratio |-> ratio,
         suspicious |->
             \/ (followers = 0 /\ following > 0)
             \/ (ratio # <<>> /\ ratio[1] >= 3 * ratio[2])
             \/ (~user.profile_pic_url_hd /\ ~user.profile_pic_url)]

\* following / followers as the pair <<following, followers>>; null is <<>>
buildSignalsFromUser(user) ==
    LET followers == user.followers
        following == user.following
        ratio == IF followers > 0 THEN <<following, followers>> ELSE <<>>
    IN  [followers |-> followers,
         following |-> following,
         ratio |-> ratio,
         suspicious |->
             \/ (followers = 0 /\ following > 0)
             \/ (ratio # <<>> /\ ratio[1] > 3 * ratio[2])
             \/ (~user.profile_pic_url_hd /\ ~user.profile_pic_url)]

\* parseIGJSON throwing on every body that has no user object
parseIGJSON_NoUserThrows(resp) ==
    IF resp.body.kind = "user" THEN [kind |-> "user", user |-> resp.body.user]
    ELSE [kind |-> "throw"]

\* resp.json() throws on a body that is not JSON; data?.data?.user ?? null
parseIGJSON(resp) ==
    IF resp.body.kind = "not_json" THEN [kind |-> "throw"]
    ELSE IF resp.body.kind = "user" THEN [kind |-> "user", user |-> resp.body.user]
    ELSE [kind |-> "null"]

\* the user object of a Found reply
userView(user, signals) ==
    [id |-> user.id,
     full_name |-> user.full_name,
     is_private |-> user.is_private,
     is_verified |-> user.is_verified,
     followers |-> signals.followers,
     following |-> signals.following,
     profile_pic_url |->
         IF user.profile_pic_url_hd THEN "hd"
         ELSE IF user.profile_pic_url THEN "sd" ELSE "undefined"]

(***************************************************************************)
(* The handler, cut at its awaits.  Each piece yields what the handler does *)
(* next: [kind |-> "reply", res |-> ...] (return res.json(...)),            *)
(* [kind |-> "call"] (go on to the next fetch), [kind |-> "retry"].         *)
(***************************************************************************)
MsgMethodNotAllowed ==
    "Method not allowed. Use GET with ?username=<name>."

MsgInvalid ==
    "Invalid username. Use 1-30 chars: letters, numbers, underscores, dots (no trailing dot or double dots)."

MsgRateLimited ==
    "Rate limited by Instagram."

\* handler up to the first fetch: method dispatch, trim, validation
handlerEntry(req) ==
    IF req.method = "OPTIONS" THEN
        [kind |-> "reply", res |-> endEmpty(204)]
    ELSE IF req.method # "GET" THEN
        [kind |-> "reply",
         res |-> setJSON(405, DefaultEdgeSeconds, [error |-> <<MsgMethodNotAllowed>>])]
    ELSE IF ~isValidUsername(queryUsername(req)) THEN
        [kind |-> "reply",
         res |-> setJSON(400, DefaultEdgeSeconds, [error |-> <<MsgInvalid>>])]
    ELSE
        [kind |-> "call", username |-> queryUsername(req)]

\* afterPrimary without the 404 check: a 404 is treated like any other status
afterPrimary_No404Check(username, r1) ==
    IF r1.status = 429 THEN
        [kind |-> "reply",
         res |-> setJSON(429, 0,
                    [username |-> username, available |-> "null", exists |-> "null",
                     error |-> <<MsgRateLimited>>, via |-> S1])]
    ELSE IF r1.status = 400 \/ r1.status = 403 THEN
        [kind |-> "retry"]
    ELSE
        [kind |-> "go"]

\* afterPrimary without the 429 check: a 429 falls through to the next tier
afterPrimary_No429Check(username, r1) ==
    IF r1.status = 404 THEN
        [kind |-> "reply",
         res |-> setJSON(200, DefaultEdgeSeconds,
                    [username |-> username, available |-> "true", exists |-> "false",
                     reason |-> "not_found", via |-> S1])]
    ELSE IF r1.status = 400 \/ r1.status = 403 THEN
        [kind |-> "retry"]
    ELSE
        [kind |-> "go"]

\* afterPrimary retrying on 400 alone
afterPrimary_RetryOn400Only(username, r1) ==
    IF r1.status = 404 THEN
        [kind |-> "reply",
         res |-> setJSON(200, DefaultEdgeSeconds,
                    [username |-> username, available |-> "true", exists |-> "false",
                     reason |-> "not_found", via |-> S1])]
    ELSE IF r1.status = 429 THEN
        [kind |-> "reply",
         res |-> setJSON(429, 0,
                    [username |-> username, available |-> "null", exists |-> "null",
                     error |-> <<MsgRateLimited>>, via |-> S1])]
    ELSE IF r1.status = 400 THEN
        [kind |-> "retry"]
    ELSE
        [kind |-> "go"]

\* the status checks on the first response of the primary endpoint
afterPrimary(username, r1) ==
    IF r1.status = 404 THEN
        [kind |-> "reply",
         res |-> setJSON(200, DefaultEdgeSeconds,
                    [username |-> username, available |-> "true", exists |-> "false",
                     reason |-> "not_found", via |-> S1])]
    ELSE IF r1.status = 429 THEN
        [kind |-> "reply",
         res |-> setJSON(429, 0,
                    [username |-> username, available |-> "null", exists |-> "null",
                     error |-> <<MsgRateLimited>>, via |-> S1])]
    ELSE IF r1.status = 400 \/ r1.status = 403 THEN
        [kind |-> "retry"]
    ELSE
        [kind |-> "go"]

\* primaryJSON replying Found with the profile but without its signals
primaryJSON_NoSignals(username, r1) ==
    IF ~ok(r1) THEN [kind |-> "call"]
    ELSE
        LET parsed == parseIGJSON(r1) IN
        IF parsed.kind = "throw" THEN [kind |-> "call"]
        ELSE IF parsed.kind = "null" THEN
            [kind |-> "reply",
             res |-> setJSON(200, DefaultEdgeSeconds,
                        [username |-> username, available |-> "true",
                         exists |-> "false", via |-> S1])]
        ELSE
            LET signals == buildSignalsFromUser(parsed.user) IN
            [kind |-> "reply",
             res |-> setJSON(200, DefaultEdgeSeconds,
                        [username |-> username, available |-> "false",
                         exists |-> "true",
                         user |-> userView(parsed.user, signals), via |-> S1])]

\* if (r1.ok) { try { parse, reply } catch { fall through } }, r1 being the
\* first response or, after a retry, the retry's response
primaryJSON(username, r1) ==
    IF ~ok(r1) THEN [kind |-> "call"]
    ELSE
        LET parsed == parseIGJSON(r1) IN
        IF parsed.kind = "throw" THEN [kind |-> "call"]
        ELSE IF parsed.kind = "null" THEN
            [kind |-> "reply",
             res |-> setJSON(200, DefaultEdgeSeconds,
                        [username |-> username, available |-> "true",
                         exists |-> "false", via |-> S1])]
        ELSE
            LET signals == buildSignalsFromUser(parsed.user) IN
            [kind |-> "reply",
             res |-> setJSON(200, DefaultEdgeSeconds,
                        [username |-> username, available |-> "false",
                         exists |-> "true",
                         user |-> userView(parsed.user, signals),
                         signals |-> signals, via |-> S1])]

\* afterAlt without the 429 check: a 429 goes on to the public page
afterAlt_No429Check(username, r2) ==
    IF r2.status = 404 THEN
        [kind |-> "reply",
         res |-> setJSON(200, DefaultEdgeSeconds,
                    [username |-> username, available |-> "true", exists |-> "false",
                     reason |-> "not_found", via |-> S2])]
    ELSE IF ~ok(r2) THEN [kind |-> "call"]
    ELSE
        LET parsed == parseIGJSON(r2) IN
        IF parsed.kind = "throw" THEN [kind |-> "call"]
        ELSE IF parsed.kind = "null" THEN
            [kind |-> "reply",
             res |-> setJSON(200, DefaultEdgeSeconds,
                        [username |-> username, available |-> "true",
                         exists |-> "false", via |-> S2])]
        ELSE
            LET signals == buildSignalsFromUser(parsed.user) IN
            [kind |-> "reply",
             res |-> setJSON(200, DefaultEdgeSeconds,
                        [username |-> username, available |-> "false",
                         exists |-> "true",
                         user |-> userView(parsed.user, signals),
                         signals |-> signals, via |-> S2])]

\* afterAlt answering a non-OK status at once with the upstream error, as a
\* handler without the public-page fallback does
afterAlt_NoFallback(username, r2) ==
    IF r2.status = 404 THEN
        [kind |-> "reply",
         res |-> setJSON(200, DefaultEdgeSeconds,
                    [username |-> username, available |-> "true", exists |-> "false",
                     reason |-> "not_found", via |-> S2])]
    ELSE IF r2.status = 429 THEN
        [kind |-> "reply",
         res |-> setJSON(429, 0,
                    [username |-> username, available |-> "null", exists |-> "null",
                     error |-> <<MsgRateLimited>>, via |-> S2])]
    ELSE IF ~ok(r2) THEN
        [kind |-> "reply",
         res |-> setJSON(502, 0,
                    [username |-> username, available |-> "null", exists |-> "null",
                     error |-> <<"Upstream error ", r2.status>>, via |-> S2])]
    ELSE
        LET parsed == parseIGJSON(r2) IN
        IF parsed.kind = "throw" THEN [kind |-> "call"]
        ELSE IF parsed.kind = "null" THEN
            [kind |-> "reply",
             res |-> setJSON(200, DefaultEdgeSeconds,
                        [username |-> username, available |-> "true",
                         exists |-> "false", via |-> S2])]
        ELSE
            LET signals == buildSignalsFromUser(parsed.user) IN
            [kind |-> "reply",
             res |-> setJSON(200, DefaultEdgeSeconds,
                        [username |-> username, available |-> "false",
                         exists |-> "true",
                         user |-> userView(parsed.user, signals),
                         signals |-> signals, via |-> S2])]

\* the alternate endpoint's response: 404, 429, then the JSON block
afterAlt(username, r2) ==
    IF r2.status = 404 THEN
        [kind |-> "reply",
         res |-> setJSON(200, DefaultEdgeSeconds,
                    [username |-> username, available |-> "true", exists |-> "false",
                     reason |-> "not_found", via |-> S2])]
    ELSE IF r2.status = 429 THEN
        [kind |-> "reply",
         res |-> setJSON(429, 0,
                    [username |-> username, available |-> "null", exists |-> "null",
                     error |-> <<MsgRateLimited>>, via |-> S2])]
    ELSE IF ~ok(r2) THEN [kind |-> "call"]
    ELSE
        LET parsed == parseIGJSON(r2) IN
        IF parsed.kind = "throw" THEN [kind |-> "call"]
        ELSE IF parsed.kind = "null" THEN
            [kind |-> "reply",
             res |-> setJSON(200, DefaultEdgeSeconds,
                        [username |-> username, available |-> "true",
                         exists |-> "false", via |-> S2])]
        ELSE
            LET signals == buildSignalsFromUser(parsed.user) IN
            [kind |-> "reply",
             res |-> setJSON(200, DefaultEdgeSeconds,
                        [username |-> username, available |-> "false",
                         exists |-> "true",
                         user |-> userView(parsed.user, signals),
                         signals |-> signals, via |-> S2])]

\* afterPublicPage without the 404 check: a 404 ends as an upstream error
afterPublicPage_No404Check(username, r3) ==
    IF ok(r3) THEN
        [kind |-> "reply",
         res |-> setJSON(200, DefaultEdgeSeconds,
                    [username |-> username, available |-> "false", exists |-> "true",
                     confidence |-> "low",
                     note |-> "Determined via public page status (HTML).",
                     via |-> S3])]
    ELSE
        [kind |-> "reply",
         res |-> setJSON(502, 0,
                    [username |-> username, available |-> "null", exists |-> "null",
                     error |-> <<"Upstream error ", r3.status>>, via |-> S3])]

\* afterPublicPage without the confidence mark on the status-200 verdict
afterPublicPage_NoConfidence(username, r3) ==
    IF r3.status = 404 THEN
        [kind |-> "reply",
         res |-> setJSON(200, DefaultEdgeSeconds,
                    [username |-> username, available |-> "true", exists |-> "false",
                     reason |-> "not_found", via |-> S3])]
    ELSE IF ok(r3) THEN
        [kind |-> "reply",
         res |-> setJSON(200, DefaultEdgeSeconds,
                    [username |-> username, available |-> "false", exists |-> "true",
                     note |-> "Determined via public page status (HTML).",
                     via |-> S3])]
    ELSE
        [kind |-> "reply",
         res |-> setJSON(502, 0,
                    [username |-> username, available |-> "null", exists |-> "null",
                     error |-> <<"Upstream error ", r3.status>>, via |-> S3])]

\* afterPublicPage reporting an undetermined outcome as available: false
afterPublicPage_NullAsFalse(username, r3) ==
    IF r3.status = 404 THEN
        [kind |-> "reply",
         res |-> setJSON(200, DefaultEdgeSeconds,
                    [username |-> username, available |-> "true", exists |-> "false",
                     reason |-> "not_found", via |-> S3])]
    ELSE IF ok(r3) THEN
        [kind |-> "reply",
         res |-> setJSON(200, DefaultEdgeSeconds,
                    [username |-> username, available |-> "false", exists |-> "true",
                     confidence |-> "low",
                     note |-> "Determined via public page status (HTML).",
                     via |-> S3])]
    ELSE
        [kind |-> "reply",
         res |-> setJSON(502, 0,
                    [username |-> username, available |-> "false", exists |-> "null",
                     error |-> <<"Upstream error ", r3.status>>, via |-> S3])]

\* the public profile page's response, judged by status alone
afterPublicPage(username, r3) ==
    IF r3.status = 404 THEN
        [kind |-> "reply",
         res |-> setJSON(200, DefaultEdgeSeconds,
                    [username |-> username, available |-> "true", exists |-> "false",
                     reason |-> "not_found", via |-> S3])]
    ELSE IF ok(r3) THEN
        [kind |-> "reply",
         res |-> setJSON(200, DefaultEdgeSeconds,
                    [username |-> username, available |-> "false", exists |-> "true",
                     confidence |-> "low",
                     note |-> "Determined via public page status (HTML).",
                     via |-> S3])]
    ELSE
        [kind |-> "reply",
         res |-> setJSON(502, 0,
                    [username |-> username, available |-> "null", exists |-> "null",
                     error |-> <<"Upstream error ", r3.status>>, via |-> S3])]

\* catchAll answering in the shape of the other error replies, with a null
\* verdict beside the message
catchAll_WithVerdict(e) ==
    setJSON(500, 0,
        [available |-> "null", exists |-> "null",
         error |-> <<IF e.message # "" THEN e.message ELSE "Unknown error">>])

\* catchAll calling setJSON without a status: the default 200 is sent
catchAll_DefaultStatus(e) ==
    setJSON(200, 0,
        [error |-> <<IF e.message # "" THEN e.message ELSE "Unknown error">>])

\* catch (e): e?.message || "Unknown error"
catchAll(e) ==
    setJSON(500, 0,
        [error |-> <<IF e.message # "" THEN e.message ELSE "Unknown error">>])

(***************************************************************************)
(* The two single-endpoint handlers: the edge handler                       *)
(* (src/check-ig-username.ts, a Request in, a Response out, no method       *)
(* dispatch) and the Node handler (one fetch of the primary endpoint, with  *)
(* the signals computed inline).                                            *)
(***************************************************************************)
MsgRateLimitedRetryLater ==
    "Rate limited by Instagram. Try again later."

MsgNonJSON ==
    "Non-JSON response from Instagram."

\* json(res, init) of the edge handler: status 200 unless init gives one,
\* s-maxage=60 on every reply
edgeJson(body, status) ==
    [cors |-> TRUE, status |-> status, json |-> TRUE, sMaxAge |-> 60, body |-> body]

\* edge handler up to its fetch
edgeEntry(req) ==
    IF ~isValidUsername(queryUsername(req)) THEN
        [kind |-> "reply", res |-> edgeJson([error |-> <<MsgInvalid>>], 400)]
    ELSE
        [kind |-> "call", username |-> queryUsername(req)]

\* edge handler after its fetch settled with f
edgeAfterFetch(username, f) ==
    IF f.threw THEN
        edgeJson([error |-> <<IF f.message # "" THEN f.message ELSE "Unknown error">>], 500)
    ELSE IF f.status = 404 THEN
        edgeJson([username |-> username, available |-> "true", exists |-> "false",
                  reason |-> "not_found"], 200)
    ELSE IF f.status = 429 THEN
        edgeJson([username |-> username, available |-> "null", exists |-> "null",
                  error |-> <<MsgRateLimitedRetryLater>>], 429)
    ELSE IF ~ok(f) THEN
        edgeJson([username |-> username, available |-> "null", exists |-> "null",
                  error |-> <<"Upstream error ", f.status>>], 502)
    ELSE IF f.body.kind = "not_json" THEN
        edgeJson([username |-> username, available |-> "null", exists |-> "null",
                  error |-> <<MsgNonJSON>>], 502)
    ELSE IF f.body.kind # "user" THEN
        edgeJson([username |-> username, available |-> "true", exists |-> "false"], 200)
    ELSE
        LET user == f.body.user IN
        edgeJson([username |-> username, available |-> "false", exists |-> "true",
                  user |-> [id |-> user.id,
                            full_name |-> user.full_name,
                            is_private |-> user.is_private,
                            is_verified |-> user.is_verified,
                            edge_followed_by |-> user.followers,
                            edge_follow |-> user.following,
                            profile_pic_url |->
                                IF user.profile_pic_url_hd THEN "hd"
                                ELSE IF user.profile_pic_url THEN "sd"
                                ELSE "undefined"]], 200)

\* Node handler up to its fetch: method dispatch, trim, validation
nodeEntry(req) ==
    IF req.method = "OPTIONS" THEN
        [kind |-> "reply", res |-> endEmpty(204)]
    ELSE IF req.method # "GET" THEN
        [kind |-> "reply",
         res |-> setJSON(405, DefaultEdgeSeconds, [error |-> <<MsgMethodNotAllowed>>])]
    ELSE IF ~isValidUsername(queryUsername(req)) THEN
        [kind |-> "reply",
         res |-> setJSON(400, DefaultEdgeSeconds, [error |-> <<MsgInvalid>>])]
    ELSE
        [kind |-> "call", username |-> queryUsername(req)]

\* the signals the Node handler computes inline: ratio as the pair
\* <<following, followers>>, null as <<>>
nodeSignals(user) ==
    LET followers == user.followers
        following == user.following
        ratio == IF followers > 0 THEN <<following, followers>> ELSE <<>>
    IN  [ratio |-> ratio,
         suspicious |->
             \/ (followers = 0 /\ following > 0)
             \/ (ratio # <<>> /\ ratio[1] > 3 * ratio[2])
             \/ (~user.profile_pic_url_hd /\ ~user.profile_pic_url)]

\* Node handler after its fetch settled with f
nodeAfterFetch(username, f) ==
    IF f.threw THEN
        setJSON(500, 0, [error |-> <<IF f.message # "" THEN f.message ELSE "Unknown error">>])
    ELSE IF f.status = 404 THEN
        setJSON(200, DefaultEdgeSeconds,
            [username |-> username, available |-> "true", exists |-> "false",
             reason |-> "not_found"])
    ELSE IF f.status = 429 THEN
        setJSON(429, 0,
            [username |-> username, available |-> "null", exists |-> "null",
             error |-> <<MsgRateLimitedRetryLater>>])
    ELSE IF ~ok(f) THEN
        setJSON(502, 0,
            [username |-> username, available |-> "null", exists |-> "null",
             error |-> <<"Upstream error ", f.status>>])
    ELSE IF f.body.kind = "not_json" THEN
        setJSON(502, 0,
            [username |-> username, available |-> "null", exists |-> "null",
             error |-> <<MsgNonJSON>>])
    ELSE IF f.body.kind # "user" THEN
        setJSON(200, DefaultEdgeSeconds,
            [username |-> username, available |-> "true", exists |-> "false"])
    ELSE
        LET user == f.body.user
            signals == nodeSignals(user)
        IN  setJSON(200, DefaultEdgeSeconds,
                [username |-> username, available |-> "false", exists |-> "true",
                 user |-> [id |-> user.id,
                           full_name |-> user.full_name,
                           is_private |-> user.is_private,
                           is_verified |-> user.is_verified,
                           followers |-> user.followers,
                           following |-> user.following,
                           profile_pic_url |->
                               IF user.profile_pic_url_hd THEN "hd"
                               ELSE IF user.profile_pic_url THEN "sd"
                               ELSE "undefined"],
                 signals |-> signals])

(***************************************************************************)
(* State.                                                                   *)
(***************************************************************************)
VARIABLES
    pc,         \* where the handler is: idle, awaiting a fetch, sleeping, done
    req,        \* the request being served
    username,   \* const username of the handler
    calls,      \* the fetches issued on this request, in order: "A", "B", "C"
    resps,      \* what each finished fetch yielded, in order
    timer,      \* milliseconds of the pending setTimeout, 0 when none
    res,        \* the response sent
    edge,       \* the edge handler's invocation on the same request
    node        \* the single-endpoint Node handler's invocation on it

vars ==
    <<pc, req, username, calls, resps, timer, res, edge, node>>

NoRequest ==
    [method |-> "", query |-> {}]

NoResponse ==
    [cors |-> FALSE, status |-> 0, json |-> FALSE]

\* an invocation of a single-endpoint handler that has not begun
NotInvoked ==
    [pc |-> "idle", username |-> <<>>, calls |-> <<>>, resps |-> <<>>,
     res |-> NoResponse]

Init ==
    /\ pc = "idle"
    /\ req = NoRequest
    /\ username = <<>>
    /\ calls = <<>>
    /\ resps = <<>>
    /\ timer = 0
    /\ res = NoResponse
    /\ edge = NotInvoked
    /\ node = NotInvoked

\* return res.json(...): the handler is over
Return(r) ==
    /\ pc' = "done"
    /\ res' = r
    /\ UNCHANGED <<calls, timer>>

\* await fetchIGWebProfile / fetchIGWebProfileAlt / fetchIGPublicProfilePage
Fetch(tier, awaiting) ==
    /\ pc' = awaiting
    /\ calls' = Append(calls, tier)
    /\ UNCHANGED <<res, timer>>

\* a request arrives: the handler runs up to its first await
HandlerStart(r) ==
    /\ pc = "idle"
    /\ req' = r
    /\ resps' = <<>>
    /\ UNCHANGED <<edge, node>>
    /\ LET o == handlerEntry(r) IN
       IF o.kind = "reply"
       THEN /\ username' = (IF r.method = "GET" THEN queryUsername(r) ELSE <<>>)
            /\ Return(o.res)
       ELSE /\ username' = o.username
            /\ Fetch("A", "awaitPrimary")

\* the first fetch of the primary endpoint settles
PrimaryResponds(f) ==
    /\ pc = "awaitPrimary"
    /\ resps' = Append(resps, f)
    /\ UNCHANGED <<req, username, edge, node>>
    /\ IF f.threw THEN Return(catchAll(f))
       ELSE LET o == afterPrimary(username, f) IN
            IF o.kind = "reply" THEN Return(o.res)
            ELSE IF o.kind = "retry"
            THEN /\ pc' = "sleep"
                 /\ timer' = RetryDelayMs
                 /\ UNCHANGED <<calls, res>>
            ELSE LET j == primaryJSON(username, f) IN
                 IF j.kind = "reply" THEN Return(j.res)
                 ELSE Fetch("B", "awaitAlt")

\* the 250 ms back-off elapses: the primary endpoint is fetched again
TimerFires ==
    /\ pc = "sleep"
    /\ pc' = "awaitRetry"
    /\ timer' = 0
    /\ calls' = Append(calls, "A")
    /\ UNCHANGED <<req, username, resps, res, edge, node>>

\* the retry of the primary endpoint settles
RetryResponds(f) ==
    /\ pc = "awaitRetry"
    /\ resps' = Append(resps, f)
    /\ UNCHANGED <<req, username, edge, node>>
    /\ IF f.threw THEN Return(catchAll(f))
       ELSE LET j == primaryJSON(username, f) IN
            IF j.kind = "reply" THEN Return(j.res)
            ELSE Fetch("B", "awaitAlt")

\* the fetch of the alternate endpoint settles
AltResponds(f) ==
    /\ pc = "awaitAlt"
    /\ resps' = Append(resps, f)
    /\ UNCHANGED <<req, username, edge, node>>
    /\ IF f.threw THEN Return(catchAll(f))
       ELSE LET o == afterAlt(username, f) IN
            IF o.kind = "reply" THEN Return(o.res)
            ELSE Fetch("C", "awaitPage")

\* the fetch of the public profile page settles
PageResponds(f) ==
    /\ pc = "awaitPage"
    /\ resps' = Append(resps, f)
    /\ UNCHANGED <<req, username, edge, node>>
    /\ IF f.threw THEN Return(catchAll(f))
       ELSE Return(afterPublicPage(username, f).res)

\* the invocation is over; nothing of it is kept for the next request
Finish ==
    /\ pc = "done"
    /\ pc' = "idle"
    /\ req' = NoRequest
    /\ username' = <<>>
    /\ calls' = <<>>
    /\ resps' = <<>>
    /\ timer' = 0
    /\ res' = NoResponse
    /\ UNCHANGED <<edge, node>>

Next ==
    \/ \E r \in Requests : HandlerStart(r)
    \/ \E f \in FetchOutcomes : PrimaryResponds(f)
    \/ TimerFires
    \/ \E f \in FetchOutcomes : RetryResponds(f)
    \/ \E f \in FetchOutcomes : AltResponds(f)
    \/ \E f \in FetchOutcomes : PageResponds(f)
    \/ Finish

Spec ==
    Init /\ [][Next]_vars

\* what the runtime guarantees of the handler's own steps: a pending
\* setTimeout fires.  No fetch is given a timeout or an abort signal, so
\* nothing guarantees that a fetch settles.
LiveSpec ==
    Init /\ [][Next]_vars /\ WF_vars(TimerFires)

(***************************************************************************)
(* The same GET request served by the three handlers, each fetching the     *)
(* primary endpoint of an upstream that gives the same probe the same       *)
(* response: resps[1], what the first probe of the primary endpoint         *)
(* returned, is what the single-endpoint handlers' fetch returns too.       *)
(***************************************************************************)
CmpRequests ==
    [method : {"GET"}, query : {{s} : s \in SeqsUpTo(Alphabet, MaxCmpLen)}]

SignalCounts ==
    (0..MaxSignalCount) \cup {10, 100}

SignalUsers ==
    [id : {"42"}, full_name : {"Ann"}, is_private : {FALSE}, is_verified : {FALSE},
     followers : SignalCounts, following : SignalCounts,
     profile_pic_url_hd : BOOLEAN, profile_pic_url : BOOLEAN]

\* a 200 whose document carries a profile
SignalOutcomes ==
    {[threw |-> FALSE, status |-> 200, body |-> [kind |-> "user", user |-> u]] :
        u \in SignalUsers}

\* what the probes after the first one return here: one outcome of each
\* kind the three-tier handler tells apart
LaterOutcomes ==
    {f \in FetchOutcomes :
        \/ f.threw
        \/ (~f.threw /\ f.status # 200)
        \/ (~f.threw /\ f.status = 200 /\ f.body.kind \in {"not_json", "user_null"})}

\* the edge handler is invoked with the request and runs up to its fetch
EdgeStart ==
    /\ pc # "idle"
    /\ edge.pc = "idle"
    /\ LET o == edgeEntry(req) IN
       edge' = IF o.kind = "reply"
               THEN [edge EXCEPT !.pc = "done", !.username = queryUsername(req),
                                 !.res = o.res]
               ELSE [edge EXCEPT !.pc = "await", !.username = o.username,
                                 !.calls = <<"A">>]
    /\ UNCHANGED <<pc, req, username, calls, resps, timer, res, node>>

\* the edge handler's fetch settles
EdgeResponds ==
    /\ edge.pc = "await"
    /\ Len(resps) >= 1
    /\ edge' = [edge EXCEPT !.pc = "done", !.resps = <<resps[1]>>,
                            !.res = edgeAfterFetch(edge.username, resps[1])]
    /\ UNCHANGED <<pc, req, username, calls, resps, timer, res, node>>

\* the Node handler is invoked with the request and runs up to its fetch
NodeStart ==
    /\ pc # "idle"
    /\ node.pc = "idle"
    /\ LET o == nodeEntry(req) IN
       node' = IF o.kind = "reply"
               THEN [node EXCEPT !.pc = "done",
                                 !.username = IF req.method = "GET"
                                              THEN queryUsername(req) ELSE <<>>,
                                 !.res = o.res]
               ELSE [node EXCEPT !.pc = "await", !.username = o.username,
                                 !.calls = <<"A">>]
    /\ UNCHANGED <<pc, req, username, calls, resps, timer, res, edge>>

\* the Node handler's fetch settles
NodeResponds ==
    /\ node.pc = "await"
    /\ Len(resps) >= 1
    /\ node' = [node EXCEPT !.pc = "done", !.resps = <<resps[1]>>,
                            !.res = nodeAfterFetch(node.username, resps[1])]
    /\ UNCHANGED <<pc, req, username, calls, resps, timer, res, edge>>

\* the three invocations are over
FinishAll ==
    /\ pc = "done"
    /\ edge.pc = "done"
    /\ node.pc = "done"
    /\ pc' = "idle"
    /\ req' = NoRequest
    /\ username' = <<>>
    /\ calls' = <<>>
    /\ resps' = <<>>
    /\ timer' = 0
    /\ res' = NoResponse
    /\ edge' = NotInvoked
    /\ node' = NotInvoked

NextThree ==
    \/ \E r \in CmpRequests : HandlerStart(r)
    \/ \E f \in FetchOutcomes \cup SignalOutcomes : PrimaryResponds(f)
    \/ TimerFires
    \/ \E f \in LaterOutcomes : RetryResponds(f)
    \/ \E f \in LaterOutcomes : AltResponds(f)
    \/ \E f \in LaterOutcomes : PageResponds(f)
    \/ EdgeStart
    \/ EdgeResponds
    \/ NodeStart
    \/ NodeResponds
    \/ FinishAll

SpecThree ==
    Init /\ [][NextThree]_vars

(***************************************************************************)
(* Vocabulary of the properties.                                            *)
(***************************************************************************)
\* the Validator rules as the specification lists them
FailsValidatorRules(u) ==
    \/ u = <<>>
    \/ Len(u) > 30
    \/ \E i \in 1..Len(u) : u[i] \notin LowerCase \cup UpperCase \cup Digits \cup {"_", "."}
    \/ (u # <<>> /\ u[Len(u)] = ".")
    \/ \E i \in 1..(Len(u) - 1) : u[i] = "." /\ u[i + 1] = "."

\* the identifier of the request in hand: the raw query value, trimmed
Identifier ==
    IF req.query = {} THEN <<>> ELSE trim(CHOOSE s \in req.query : TRUE)

HasBody ==
    res.json

HasVerdict ==
    HasBody /\ "available" \in DOMAIN res.body

HasError ==
    HasBody /\ "error" \in DOMAIN res.body

CountOf(tier) ==
    Cardinality({i \in 1..Len(calls) : calls[i] = tier})

\* the i-th finished fetch returned a response with status s
RespStatus(i, s) ==
    Len(resps) >= i /\ ~resps[i].threw /\ resps[i].status = s

FirstNeedsRetry ==
    RespStatus(1, 400) \/ RespStatus(1, 403)

\* index in resps of the primary endpoint's last word, of the alternate
\* endpoint's response and of the public page's response
IdxA ==
    IF FirstNeedsRetry THEN 2 ELSE 1

IdxB ==
    IdxA + 1

IdxC ==
    IdxA + 2

\* rules 5 and 6: a returned response that is neither 404 nor 429 and is
\* not OK, or is OK with a body that does not parse
Inconclusive(f) ==
    /\ ~f.threw
    /\ f.status \notin {404, 429}
    /\ (~(f.status >= 200 /\ f.status <= 299) \/ f.body.kind = "not_json")

IsAvailableVia(source) ==
    /\ pc = "done"
    /\ HasVerdict
    /\ res.body.available = "true"
    /\ res.body.exists = "false"
    /\ res.body.via = source

IsRateLimitedVia(source) ==
    /\ pc = "done"
    /\ HasVerdict
    /\ HasError
    /\ res.body.available = "null"
    /\ res.body.exists = "null"
    /\ res.body.error = <<"Rate limited by Instagram.">>
    /\ res.body.via = source

(***************************************************************************)
(* C1.  A GET request whose identifier fails the Validator rules (empty     *)
(* after trimming, longer than 30 characters, a character outside letters / *)
(* digits / underscore / period, a trailing period, two consecutive         *)
(* periods) is answered with HTTP 400 and a body that carries only the      *)
(* error message, and no outbound probe call is issued on that request.     *)
(***************************************************************************)
C1_InvalidIdentifierNoCalls ==
    (req.method = "GET" /\ FailsValidatorRules(Identifier)) =>
        /\ pc = "done"
        /\ res.status = 400
        /\ HasError
        /\ DOMAIN res.body = {"error"}
        /\ calls = <<>>
        /\ resps = <<>>

\* an over-long name padded with white space was rejected
C1_Witness ==
    /\ pc = "done"
    /\ req.method = "GET"
    /\ Len(Identifier) > 30
    /\ req.query # {}
    /\ res.status = 400
    /\ calls = <<>>

(***************************************************************************)
(* C2.  When the first probe of Tier A returns 404 the request is over with *)
(* available = true, exists = false, provenance Tier A, and that probe is   *)
(* the only outbound call: no retry, no Tier B, no Tier C.                  *)
(***************************************************************************)
C2_TierA404Available ==
    RespStatus(1, 404) =>
        /\ IsAvailableVia(S1)
        /\ res.status = 200
        /\ calls = <<"A">>

C2_Witness ==
    /\ RespStatus(1, 404)
    /\ pc = "done"
    /\ calls = <<"A">>
    /\ res.body.available = "true"

(***************************************************************************)
(* C3.  When the first probe of Tier A returns 429 the request is over with *)
(* available = null, exists = null and the rate-limit error, and Tier B and *)
(* Tier C are not invoked.                                                  *)
(***************************************************************************)
C3_TierA429RateLimited ==
    RespStatus(1, 429) =>
        /\ IsRateLimitedVia(S1)
        /\ calls = <<"A">>

C3_Witness ==
    /\ RespStatus(1, 429)
    /\ pc = "done"
    /\ calls = <<"A">>
    /\ res.body.available = "null"

(***************************************************************************)
(* C4.  A first Tier A response of 400 or 403 is followed, after the delay, *)
(* by exactly one more Tier A probe and never a third; a retry that returns *)
(* OK with a parseable body without a user ends the request with            *)
(* available = true, exists = false via Tier A and no Tier B or Tier C      *)
(* probe.  Any other first outcome is followed by no retry.                 *)
(***************************************************************************)
C4_ExactlyOneRetry ==
    /\ CountOf("A") <= 2
    /\ FirstNeedsRetry =>
          IF pc = "sleep"
          THEN calls = <<"A">> /\ timer = 250
          ELSE /\ CountOf("A") = 2
               /\ calls[1] = "A"
               /\ calls[2] = "A"
               /\ timer = 0
    /\ (Len(resps) >= 1 /\ ~FirstNeedsRetry) => (CountOf("A") = 1 /\ pc # "sleep")
    /\ (/\ FirstNeedsRetry
        /\ RespStatus(2, 200)
        /\ resps[2].body.kind \in {"user_null", "no_user_key"}) =>
          (IsAvailableVia(S1) /\ calls = <<"A", "A">>)

C4_Witness ==
    /\ pc = "done"
    /\ RespStatus(1, 400)
    /\ RespStatus(2, 200)
    /\ resps[2].body.kind = "user_null"
    /\ calls = <<"A", "A">>
    /\ res.body.available = "true"

(***************************************************************************)
(* C5.  The retry's outcome is classified like a first attempt: a retry     *)
(* that returns 404 ends the request Available, a retry that returns 429    *)
(* ends it Unknown with the rate-limited error, and in both cases the chain *)
(* ends at Tier A without a Tier B or Tier C probe.                         *)
(***************************************************************************)
C5_RetryClassifiedLikeFirst ==
    /\ (FirstNeedsRetry /\ RespStatus(2, 404)) =>
          (IsAvailableVia(S1) /\ calls = <<"A", "A">>)
    /\ (FirstNeedsRetry /\ RespStatus(2, 429)) =>
          (IsRateLimitedVia(S1) /\ calls = <<"A", "A">>)

(***************************************************************************)
(* C6.  A 429 from any tier ends the request at that tier with the Unknown  *)
(* verdict (available = null, exists = null), the rate-limited error and    *)
(* HTTP status 429.                                                         *)
(***************************************************************************)
C6_Any429RateLimited ==
    \A i \in 1..Len(resps) :
        RespStatus(i, 429) =>
            /\ Len(resps) = i
            /\ Len(calls) = i
            /\ pc = "done"
            /\ res.status = 429
            /\ HasVerdict
            /\ res.body.available = "null"
            /\ res.body.exists = "null"
            /\ HasError
            /\ res.body.error = <<"Rate limited by Instagram.">>

(***************************************************************************)
(* C7.  When Tier A (its retry included) and Tier B both end inconclusive,  *)
(* Tier C is probed, and when it returns 404 the result is                  *)
(* available = true, exists = false with provenance "public profile page".  *)
(***************************************************************************)
C7_TierC404Available ==
    (/\ Len(resps) >= IdxB
     /\ Inconclusive(resps[IdxA])
     /\ Inconclusive(resps[IdxB])) =>
        /\ Len(calls) = IdxC
        /\ calls[IdxC] = "C"
        /\ RespStatus(IdxC, 404) =>
              (IsAvailableVia("public profile page") /\ res.status = 200)

C7_Witness ==
    /\ pc = "done"
    /\ RespStatus(1, 403)
    /\ RespStatus(2, 500)
    /\ RespStatus(3, 500)
    /\ RespStatus(4, 404)
    /\ res.body.via = "public profile page"
    /\ res.body.available = "true"

IsRateLimitedResult ==
    HasError /\ res.body.error = <<"Rate limited by Instagram.">>

IsUpstreamErrorResult ==
    HasError /\ Len(res.body.error) = 2 /\ res.body.error[1] = "Upstream error "

C9_VerdictTriState ==
    /\ HasVerdict =>
          /\ "exists" \in DOMAIN res.body
          /\ \/ (res.body.available = "null" /\ res.body.exists = "null")
             \/ (res.body.available = "true" /\ res.body.exists = "false")
             \/ (res.body.available = "false" /\ res.body.exists = "true")
          /\ res.body.available = "null" <=>
                (IsRateLimitedResult \/ IsUpstreamErrorResult)
    /\ (IsRateLimitedResult \/ IsUpstreamErrorResult) => HasVerdict

\* a Found verdict after an inconclusive Tier A
C9_Witness ==
    /\ pc = "done"
    /\ HasVerdict
    /\ res.body.available = "false"
    /\ res.body.exists = "true"
    /\ Len(resps) = 2
    /\ RespStatus(1, 500)

(***************************************************************************)
(* C10.  The HTTP status follows the outcome kind on every path: 200        *)
(* exactly for an Available or Found verdict, 400 for InvalidIdentifier,    *)
(* 429 for RateLimited, 502 for UpstreamUnavailable, 500 for InternalError. *)
(***************************************************************************)
IsInvalidIdentifierResult ==
    HasError /\ res.body.error = <<MsgInvalid>>

IsInternalErrorResult ==
    /\ HasError
    /\ "username" \notin DOMAIN res.body
    /\ Len(res.body.error) = 1
    /\ res.body.error[1] \notin {MsgInvalid, MsgMethodNotAllowed}

C10_StatusFollowsOutcome ==
    pc = "done" =>
        /\ res.status = 200 <=> (HasVerdict /\ res.body.available \in {"true", "false"})
        /\ res.status = 400 <=> IsInvalidIdentifierResult
        /\ res.status = 429 <=> IsRateLimitedResult
        /\ res.status = 502 <=> IsUpstreamErrorResult
        /\ res.status = 500 <=> IsInternalErrorResult

\* a fetch that rejected on the fallback path was answered with 500
C10_Witness ==
    /\ pc = "done"
    /\ Len(resps) = 3
    /\ resps[3].threw
    /\ res.status = 500
    /\ DOMAIN res.body = {"error"}

(***************************************************************************)
(* C11.  As claimed: confidence is "low" on every Available or Found        *)
(* verdict resolved via Tier C, and absent on every verdict resolved via    *)
(* Tier A or Tier B.                                                        *)
(***************************************************************************)
HasConfidence ==
    HasBody /\ "confidence" \in DOMAIN res.body

IsResolved ==
    pc = "done" /\ HasVerdict /\ res.body.available \in {"true", "false"}

C11_LowConfidenceOnEveryTierCVerdict ==
    IsResolved =>
        IF res.body.via = "public profile page"
        THEN HasConfidence /\ res.body.confidence = "low"
        ELSE ~HasConfidence

(***************************************************************************)
(* C11, amended.  confidence is "low" on the Found verdict that Tier C      *)
(* derives from an OK status, and absent from every other reply: the        *)
(* verdicts resolved via Tier A or Tier B, and the Available verdict that   *)
(* Tier C derives from a 404.                                               *)
(***************************************************************************)
C11_LowConfidenceOnTierCFound ==
    pc = "done" =>
        /\ HasConfidence <=>
              (/\ HasVerdict
               /\ res.body.via = "public profile page"
               /\ res.body.available = "false"
               /\ res.body.exists = "true")
        /\ HasConfidence => res.body.confidence = "low"
        /\ (Len(resps) = Len(calls) /\ Len(calls) >= 1 /\ calls[Len(calls)] = "C"
            /\ RespStatus(Len(resps), 200)) => HasConfidence

\* both Tier C verdicts are reached; this is the Found one
C11_Witness ==
    /\ pc = "done"
    /\ calls = <<"A", "B", "C">>
    /\ RespStatus(3, 200)
    /\ HasConfidence
    /\ res.body.confidence = "low"
    /\ res.body.available = "false"

(***************************************************************************)
(* C12.  For the follower count F, the following count G and the avatar     *)
(* URLs of a found profile, in the three-tier handler's reply and in the    *)
(* Node handler's reply: ratio is null exactly when F = 0 and is G / F      *)
(* otherwise; suspicious is true exactly when F = 0 and G > 0, or F > 0 and *)
(* G > 3 * F, or neither avatar URL is present.  F = 0, G = 5 is            *)
(* suspicious; F = 100, G = 10 with an avatar has ratio 0.1 and is not;     *)
(* F = 0, G = 0 with an avatar has ratio null and is not.                   *)
(***************************************************************************)
\* the first probe of the primary endpoint returned a profile
ProfileSeen ==
    RespStatus(1, 200) /\ resps[1].body.kind = "user"

SeenUser ==
    resps[1].body.user

HasAvatar(u) ==
    u.profile_pic_url_hd \/ u.profile_pic_url

\* sig.ratio is null when F = 0 and the quotient G / F otherwise
RatioAsSpecified(sig, u) ==
    IF u.followers = 0 THEN sig.ratio = <<>>
    ELSE /\ sig.ratio # <<>>
         /\ sig.ratio[2] > 0
         /\ sig.ratio[1] * u.followers = u.following * sig.ratio[2]

SuspiciousAsSpecified(sig, u) ==
    sig.suspicious <=>
        \/ (u.followers = 0 /\ u.following > 0)
        \/ (u.followers > 0 /\ u.following > 3 * u.followers)
        \/ ~HasAvatar(u)

SignalsAsSpecified(sig, u) ==
    /\ RatioAsSpecified(sig, u)
    /\ SuspiciousAsSpecified(sig, u)
    /\ (u.followers = 0 /\ u.following = 5) => sig.suspicious
    /\ (u.followers = 100 /\ u.following = 10 /\ HasAvatar(u)) =>
          (~sig.suspicious /\ sig.ratio # <<>> /\ sig.ratio[1] * 10 = sig.ratio[2])
    /\ (u.followers = 0 /\ u.following = 0 /\ HasAvatar(u)) =>
          (~sig.suspicious /\ sig.ratio = <<>>)

C12_SignalsFromCounts ==
    ProfileSeen =>
        /\ pc = "done"
        /\ "signals" \in DOMAIN res.body
        /\ SignalsAsSpecified(res.body.signals, SeenUser)
        /\ node.pc = "done" =>
              /\ "signals" \in DOMAIN node.res.body
              /\ SignalsAsSpecified(node.res.body.signals, SeenUser)

\* followers = 100, following = 10 with an avatar, answered by both handlers
C12_Witness ==
    /\ ProfileSeen
    /\ SeenUser.followers = 100
    /\ SeenUser.following = 10
    /\ SeenUser.profile_pic_url
    /\ pc = "done"
    /\ node.pc = "done"
    /\ ~res.body.signals.suspicious
    /\ ~node.res.body.signals.suspicious
    /\ res.body.signals.ratio = <<10, 100>>

(***************************************************************************)
(* C14.  Every request eventually produces a result, also when an upstream  *)
(* probe never responds: a request that has a probe in flight (or is in its *)
(* back-off) leads to a reply.                                              *)
(***************************************************************************)
ProbePending ==
    pc \in {"awaitPrimary", "sleep", "awaitRetry", "awaitAlt", "awaitPage"}

C14_EveryRequestGetsAResult ==
    ProbePending ~> (pc = "done")

(***************************************************************************)
(* C15.  A failure local to Tier A or Tier B (an inconclusive status, an    *)
(* unparseable body, or the probe call itself failing with a network error) *)
(* is recovered by advancing: after it at Tier A, Tier B is contacted;      *)
(* after it at Tier B, Tier C is contacted; and the request does not end    *)
(* with an error result before Tier C has been tried.                       *)
(***************************************************************************)
TierLocalFailure(f) ==
    f.threw \/ Inconclusive(f)

C15_TierLocalFailureAdvances ==
    /\ (Len(resps) >= IdxA /\ TierLocalFailure(resps[IdxA])) =>
          (Len(calls) >= IdxB /\ calls[IdxB] = "B")
    /\ (Len(resps) >= IdxB /\ Len(calls) >= IdxB /\ calls[IdxB] = "B"
        /\ TierLocalFailure(resps[IdxB])) =>
          (Len(calls) >= IdxC /\ calls[IdxC] = "C")
    /\ (pc = "done" /\ res.status \in {500, 502}) => CountOf("C") = 1

(***************************************************************************)
(* C16.  A failure raised in the pipeline after validation (a fetch that    *)
(* rejects, at any tier) ends the request there with exactly the            *)
(* InternalError reply: HTTP 500 and a body that carries the error message  *)
(* and nothing else (no verdict, no profile, no signals); and HTTP 500 is   *)
(* sent for nothing else.                                                   *)
(***************************************************************************)
C16_FailureCaughtAsInternalError ==
    /\ \A i \in 1..Len(resps) :
          resps[i].threw =>
              /\ i = Len(resps)
              /\ Len(calls) = i
              /\ pc = "done"
              /\ res.status = 500
              /\ HasBody
              /\ DOMAIN res.body = {"error"}
              /\ res.body.error = <<resps[i].message>>
    /\ (pc = "done" /\ res.status = 500) =>
          (Len(resps) >= 1 /\ resps[Len(resps)].threw)

\* the retry of the primary endpoint rejected
C16_Witness ==
    /\ pc = "done"
    /\ calls = <<"A", "A">>
    /\ Len(resps) = 2
    /\ resps[2].threw
    /\ res.status = 500
    /\ DOMAIN res.body = {"error"}

(***************************************************************************)
(* C17.  The probes of a request form a sequential chain of at most four    *)
(* calls in the order Tier A, optional Tier A retry, Tier B, Tier C: at     *)
(* most two Tier A calls, one Tier B call and one Tier C call; a probe      *)
(* starts only after the previous one has returned; Tier B is never called  *)
(* before Tier A; Tier C is called only after a Tier B call whose outcome   *)
(* was inconclusive; and a 400 or 403 from Tier B causes no retry but the   *)
(* advance to Tier C.                                                       *)
(***************************************************************************)
IsPrefixOf(p, q) ==
    Len(p) <= Len(q) /\ \A i \in 1..Len(p) : p[i] = q[i]

C17_SequentialOrderedChain ==
    /\ Len(calls) <= 4
    /\ (IsPrefixOf(calls, <<"A", "B", "C">>) \/ IsPrefixOf(calls, <<"A", "A", "B", "C">>))
    /\ CountOf("A") <= 2
    /\ CountOf("B") <= 1
    /\ CountOf("C") <= 1
    /\ Len(resps) <= Len(calls)
    /\ Len(calls) <= Len(resps) + 1
    /\ \A i \in 1..Len(calls) :
          /\ calls[i] = "B" => (i >= 2 /\ calls[1] = "A")
          /\ calls[i] = "C" =>
                /\ i >= 2
                /\ calls[i - 1] = "B"
                /\ Len(resps) >= i - 1
                /\ Inconclusive(resps[i - 1])
          /\ (calls[i] = "B" /\ (RespStatus(i, 400) \/ RespStatus(i, 403))) =>
                /\ Len(calls) >= i + 1
                /\ calls[i + 1] = "C"
                /\ CountOf("B") = 1

\* all four calls were made, Tier B having answered 403
C17_Witness ==
    /\ calls = <<"A", "A", "B", "C">>
    /\ Len(resps) = 4
    /\ RespStatus(3, 403)
    /\ pc = "done"

(***************************************************************************)
(* C18.  At Tier A and Tier B an OK response whose body is not JSON, or is  *)
(* JSON without the data.user indicator, is inconclusive: the next tier is  *)
(* called and no Available or Found verdict comes from it.  Only a body     *)
(* that carries the indicator (user null, or a user object) yields          *)
(* Available or Found at these tiers.                                       *)
(***************************************************************************)
OKResponse(i) ==
    RespStatus(i, 200)

LacksIndicator(i) ==
    OKResponse(i) /\ resps[i].body.kind \in {"not_json", "no_user_key"}

NextTier(t) ==
    IF t = "A" THEN "B" ELSE "C"

C18_UnexpectedShapeInconclusive ==
    \A i \in 1..Len(resps) :
        (calls[i] \in {"A", "B"} /\ LacksIndicator(i)) =>
            /\ Len(calls) >= i + 1
            /\ calls[i + 1] = NextTier(calls[i])
            /\ ~(pc = "done" /\ Len(resps) = i /\ HasVerdict
                    /\ res.body.available \in {"true", "false"})

(***************************************************************************)
(* C19.  Every Found verdict of Tier A or Tier B carries the profile record *)
(* and the signals computed from the follower and following counts of that  *)
(* same profile, and ends the chain; every Available or Unknown verdict     *)
(* carries neither a profile nor signals.                                   *)
(***************************************************************************)
IsFoundVia(source) ==
    /\ pc = "done"
    /\ HasVerdict
    /\ res.body.exists = "true"
    /\ res.body.via = source

LastResponse ==
    resps[Len(resps)]

TierOfSource(source) ==
    IF source = S1 THEN "A" ELSE "B"

C19_FoundCarriesProfileAndSignals ==
    /\ \A source \in {S1, S2} :
          IsFoundVia(source) =>
              /\ Len(resps) >= 1
              /\ Len(calls) = Len(resps)
              /\ calls[Len(calls)] = TierOfSource(source)
              /\ RespStatus(Len(resps), 200)
              /\ LastResponse.body.kind = "user"
              /\ {"user", "signals"} \subseteq DOMAIN res.body
              /\ res.body.user.id = LastResponse.body.user.id
              /\ res.body.user.full_name = LastResponse.body.user.full_name
              /\ res.body.user.followers = LastResponse.body.user.followers
              /\ res.body.user.following = LastResponse.body.user.following
              /\ res.body.signals.followers = LastResponse.body.user.followers
              /\ res.body.signals.following = LastResponse.body.user.following
              /\ RatioAsSpecified(res.body.signals, LastResponse.body.user)
              /\ SuspiciousAsSpecified(res.body.signals, LastResponse.body.user)
    /\ (pc = "done" /\ HasVerdict /\ res.body.exists # "true") =>
          ({"user", "signals"} \cap DOMAIN res.body = {})

\* Found by the alternate endpoint after the primary one was inconclusive
C19_Witness ==
    /\ IsFoundVia(S2)
    /\ calls = <<"A", "B">>
    /\ LastResponse.body.kind = "user"
    /\ LastResponse.body.user.following = 1
    /\ LastResponse.body.user.followers = 0
    /\ res.body.signals.suspicious
    /\ res.body.user.following = 1

(***************************************************************************)
(* C20.  For the same valid identifier and the same first response of the   *)
(* primary endpoint, the edge handler, the Node handler and the three-tier  *)
(* handler agree when that response is authoritative (404, 429, or OK with  *)
(* a body that parses): same available/exists verdict, same HTTP status,    *)
(* one outbound call each.  When it is inconclusive the two single-endpoint *)
(* handlers reply Unknown with 502 after their one call, and the three-tier *)
(* handler goes on to a retry or a fallback.                                *)
(***************************************************************************)
AllReplied ==
    pc = "done" /\ edge.pc = "done" /\ node.pc = "done"

FirstAuthoritative ==
    \/ RespStatus(1, 404)
    \/ RespStatus(1, 429)
    \/ (RespStatus(1, 200) /\ resps[1].body.kind # "not_json")

FirstInconclusive ==
    Len(resps) >= 1 /\ Inconclusive(resps[1])

SameVerdictAndStatus(r, q) ==
    /\ r.json /\ q.json
    /\ "available" \in DOMAIN r.body /\ "available" \in DOMAIN q.body
    /\ r.body.available = q.body.available
    /\ r.body.exists = q.body.exists
    /\ r.status = q.status

UnknownWith502(r) ==
    /\ r.json
    /\ "available" \in DOMAIN r.body
    /\ r.body.available = "null"
    /\ r.body.exists = "null"
    /\ r.status = 502

C20_HandlersAgreeOnAuthoritativeFirst ==
    /\ FirstAuthoritative => (pc = "done" /\ calls = <<"A">>)
    /\ (AllReplied /\ FirstAuthoritative) =>
          /\ SameVerdictAndStatus(res, edge.res)
          /\ SameVerdictAndStatus(res, node.res)
          /\ edge.calls = <<"A">>
          /\ node.calls = <<"A">>
          /\ edge.username = username
          /\ node.username = username
    /\ FirstInconclusive =>
          /\ (pc = "sleep" /\ FirstNeedsRetry) \/ Len(calls) >= 2
          /\ pc = "done" => Len(calls) >= 2
          /\ edge.pc = "done" => (UnknownWith502(edge.res) /\ edge.calls = <<"A">>)
          /\ node.pc = "done" => (UnknownWith502(node.res) /\ node.calls = <<"A">>)

\* the three handlers answered Available to an OK body with data.user null
C20_Witness ==
    /\ AllReplied
    /\ RespStatus(1, 200)
    /\ resps[1].body.kind = "user_null"
    /\ calls = <<"A">>
    /\ res.body.available = "true"
    /\ edge.res.body.available = "true"
    /\ node.res.body.available = "true"
    /\ res.status = 200
    /\ edge.res.status = 200
    /\ node.res.status = 200

====
